---- MODULE Spec2Model ----
(***************************************************************************)
(* Model of pypardot/client.py: the PardotAPI client core.                 *)
(*                                                                         *)
(* The client is single threaded and synchronous, but get/post,            *)
(* _check_auth, authenticate and _handle_expired_api_key call one another  *)
(* (and recurse), so the model keeps the Python call stack explicitly: a   *)
(* sequence of frames, the last one being the running activation.  Each    *)
(* outbound HTTP request is one step whose response the server chooses.    *)
(***************************************************************************)
EXTENDS Naturals, Sequences, FiniteSets

VARIABLES
    api_key,    \* self.api_key: None or the key string of the last login
    stack,      \* the call stack, innermost activation last
    ret,        \* the value or exception travelling to the top frame
    trace,      \* outbound requests of the current top-level call, in order
    result,     \* what the last top-level call gave its caller
    call,       \* the current (or last) top-level call and its arguments
    key0        \* self.api_key when that top-level call started

vars == <<api_key, stack, ret, trace, result, call, key0>>

----------------------------------------------------------------------------
(* Bounds of the model *)

\* Deepest call stack explored (Python itself stops at its recursion limit).
MaxDepth == 7

----------------------------------------------------------------------------
(* Values *)

\* Python's None.
None == "None"

\* client.py line 60 / 83: the one message the client retries on.
InvalidKeyMsg == "Invalid API key or user key"

\* Any other error message of the API.
OtherMsg == "Login failed"

\* self.user_key, fixed at construction.
user_key == "uk"

\* Keys a login response may carry.  The empty string is one of them: line
\* 142 tests the stored key with "is not None", lines 54-55 and 77-78 with
\* its truth value.
Keys == {"", "k1", "k2"}

\* Object names: the login operation and one resource collection.
ObjectNames == {"login", "prospect"}

\* Path suffixes a caller may pass.
Paths == {None, "/do/query"}

\* Parameter mappings a caller may pass, as their sets of keys.
ParamSets == {{}, {"id"}}

\* Bodies a caller may pass to post.
Bodies == {None, "body"}

\* authenticate()'s body, line 139: the stored credential.
LoginData == "email,password,user_key"

\* Every response the server may give: content-type, the JSON fields the
\* client reads (err, api_key) and the HTTP status code.
Responses ==
    [ctype : {"application/json"}, err : {None, "", InvalidKeyMsg, OtherMsg},
     api_key : {None}, status : {200}]
    \cup [ctype : {"application/json"}, err : {None},
          api_key : Keys, status : {200}]
    \cup [ctype : {"text/html"}, err : {None}, api_key : {None},
          status : {200, 500}]

\* The decoded JSON body of a response: the fields the client reads.
Json(resp) == [err |-> resp.err, api_key |-> resp.api_key]

NoJson == [err |-> None, api_key |-> None]

\* What a call hands back: nothing yet, a decoded JSON body, a status code,
\* a boolean, or a raised exception.
Outcome(kind, json, status, flag) ==
    [kind |-> kind, json |-> json, status |-> status, flag |-> flag]

NoOutcome == Outcome("none", NoJson, 0, FALSE)
JsonValue(json) == Outcome("json", json, 0, FALSE)
StatusValue(status) == Outcome("status", NoJson, status, FALSE)
BoolValue(flag) == Outcome("bool", NoJson, 0, flag)
\* raise PardotAPIError(json_response=json)
PardotAPIError(json) == Outcome("PardotAPIError", json, 0, FALSE)
\* int has no attribute 'get'
AttributeError == Outcome("AttributeError", NoJson, 0, FALSE)

IsRaise(o) == o.kind \in {"PardotAPIError", "AttributeError"}

\* errors.py: the message a PardotAPIError carries is the body's err field.
Message(err) == err.json.err

\* Python truthiness of a string-or-None value.
Truthy(v) == v # None /\ v # ""

----------------------------------------------------------------------------
(* Frames *)

Frame(fn, pc, object_name, path, params, retries, data, method, err) ==
    [fn |-> fn, pc |-> pc, object_name |-> object_name, path |-> path,
     params |-> params, retries |-> retries, data |-> data,
     method |-> method, err |-> err]

\* An activation of get or post (fn), at its first statement.
\* Lines 48-50 / 72-74: params.update({'format': 'json'}).
RequestFrame(fn, object_name, path, params, retries, data) ==
    Frame(fn, "check_auth", object_name, path, params \cup {"format"},
          retries, data, fn, NoOutcome)

AuthenticateFrame ==
    Frame("authenticate", "start", None, None, {}, 0, None, None, NoOutcome)

\* _handle_expired_api_key(err, retries, method, object_name, path, params):
\* no data parameter.
HandleFrame(err, retries, method, object_name, path, params) ==
    Frame("handle", "start", object_name, path, params, retries, None,
          method, err)

Top == stack[Len(stack)]
Pop == SubSeq(stack, 1, Len(stack) - 1)
SetTop(f) == [stack EXCEPT ![Len(stack)] = f]
Running == stack # <<>> /\ ret = NoOutcome
Returning == stack # <<>> /\ ret # NoOutcome

----------------------------------------------------------------------------
(* Pure helpers of the client *)

BASE_URI == "https://pi.pardot.com"

\* _full_path, lines 104-109, as the sequence of the pieces it concatenates.
FullPath(object_name, path) ==
    LET full == <<BASE_URI, "/api/", object_name, "/version/", "3">>
    IN  IF Truthy(path) THEN full \o <<path>> ELSE full

\* Lines 54-55 / 77-78: the Authorization header, or no header at all.
Headers(key) ==
    IF Truthy(key)
    THEN [present |-> TRUE, api_key |-> key, user_key |-> user_key]
    ELSE [present |-> FALSE, api_key |-> None, user_key |-> None]

\* Mutant of CheckResponse: a non-JSON response with an error status is
\* raised as an API error instead of being returned.
CheckResponseRaiseForStatus(resp) ==
    IF resp.ctype = "application/json"
    THEN IF Truthy(Json(resp).err)
         THEN PardotAPIError(Json(resp))
         ELSE JsonValue(Json(resp))
    ELSE IF resp.status >= 400
         THEN PardotAPIError(NoJson)
         ELSE StatusValue(resp.status)

\* _check_response, lines 112-125.
CheckResponse(resp) ==
    IF resp.ctype = "application/json"
    THEN IF Truthy(Json(resp).err)
         THEN PardotAPIError(Json(resp))
         ELSE JsonValue(Json(resp))
    ELSE StatusValue(resp.status)

\* Mutant of IsInvalidKey: every API error is taken for an expired key.
IsInvalidKeyAnyError(err) == Message(err) # None

\* Lines 60 / 83: the except clause's test.
IsInvalidKey(err) == Message(err) = InvalidKeyMsg

\* Mutant of NeedsAuth: the exemption of the login operation is missing.
NeedsAuthLoginToo(object_name, key) == key = None

\* Mutant of NeedsAuth: the test of the key is inverted.
NeedsAuthInverted(object_name, key) == object_name # "login" /\ key # None

\* _check_auth, lines 128-131: whether it calls authenticate.
NeedsAuth(object_name, key) == object_name # "login" /\ key = None

\* Line 94: whether _handle_expired_api_key gives up at once.
RetryExhausted(retries) == retries # 0

\* authenticate, line 140: self.post('login', data=data).
LoginFrame == RequestFrame("post", "login", None, {}, 0, LoginData)

\* Mutant of ReplayFrame: the replay drops the path as well.
ReplayFrameNoPath(h) ==
    RequestFrame(h.method, h.object_name, None, h.params, 1, None)

\* Line 98: getattr(self, method)(object_name=..., path=..., params=...,
\* retries=1); no data is passed, so post falls back to data=None.
ReplayFrame(h) ==
    RequestFrame(h.method, h.object_name, h.path, h.params, 1, None)

\* What the request being sent is for, read off the call stack: a login
\* made by _check_auth ("ensure"), by _handle_expired_api_key ("reauth") or
\* by a direct authenticate() ("authenticate"); the replay of line 98
\* ("replay"); or a request of the caller ("request").
Role(stk) ==
    LET n == Len(stk)
    IN  IF n >= 2 /\ stk[n-1].fn = "authenticate"
        THEN IF n = 2 THEN "authenticate"
             ELSE IF stk[n-2].fn = "handle" THEN "reauth" ELSE "ensure"
        ELSE IF n >= 2 /\ stk[n-1].fn = "handle" THEN "replay"
        ELSE "request"

\* One outbound HTTP request of frame f and the response it got.
Request(f, key, role, depth, resp) ==
    [verb |-> f.fn, url |-> FullPath(f.object_name, f.path),
     object_name |-> f.object_name, path |-> f.path, params |-> f.params,
     data |-> f.data, headers |-> Headers(key), retries |-> f.retries,
     role |-> role, depth |-> depth, resp |-> resp]

----------------------------------------------------------------------------
(* The state machine *)

NoCall == [fn |-> None, object_name |-> None, path |-> None, params |-> {},
           retries |-> 0, data |-> None]

\* __init__, lines 26-30.
Init ==
    /\ api_key = None
    /\ stack = <<>>
    /\ ret = NoOutcome
    /\ trace = <<>>
    /\ result = NoOutcome
    /\ call = NoCall
    /\ key0 = None

Idle == stack = <<>> /\ ret = NoOutcome

Begin(fn, object_name, path, params, retries, data, frame) ==
    /\ Idle
    /\ stack' = <<frame>>
    /\ call' = [fn |-> fn, object_name |-> object_name, path |-> path,
                params |-> params, retries |-> retries, data |-> data]
    /\ key0' = api_key
    /\ trace' = <<>>
    /\ result' = NoOutcome
    /\ UNCHANGED <<api_key, ret>>

\* A caller invokes client.get(object_name, path, params, retries).
CallGet ==
    \E o \in ObjectNames, p \in Paths, ps \in ParamSets, r \in {0, 1} :
        Begin("get", o, p, ps, r, None, RequestFrame("get", o, p, ps, r, None))

\* A caller invokes client.post(object_name, path, params, retries, data).
CallPost ==
    \E o \in ObjectNames, p \in Paths, ps \in ParamSets, r \in {0, 1},
       d \in Bodies :
        Begin("post", o, p, ps, r, d, RequestFrame("post", o, p, ps, r, d))

\* A caller invokes client.authenticate().
CallAuthenticate ==
    Begin("authenticate", None, None, {}, 0, None, AuthenticateFrame)

\* Lines 53 / 76: self._check_auth(object_name) inside get or post.
CheckAuth ==
    /\ Running
    /\ Top.fn \in {"get", "post"} /\ Top.pc = "check_auth"
    /\ IF NeedsAuth(Top.object_name, api_key)
       THEN /\ Len(stack) < MaxDepth
            /\ stack' = Append(SetTop([Top EXCEPT !.pc = "wait_auth"]),
                               AuthenticateFrame)
       ELSE stack' = SetTop([Top EXCEPT !.pc = "send"])
    /\ UNCHANGED <<api_key, ret, trace, result, call, key0>>

\* _check_auth returns (line 131): authenticate's boolean is dropped; an
\* exception that is not caught in authenticate passes through the
\* "except PardotAPIError" of get/post when it is of another class.
CheckAuthReturn ==
    /\ Returning
    /\ Top.fn \in {"get", "post"} /\ Top.pc = "wait_auth"
    /\ IF IsRaise(ret)
       THEN stack' = Pop /\ ret' = ret
       ELSE stack' = SetTop([Top EXCEPT !.pc = "send"]) /\ ret' = NoOutcome
    /\ UNCHANGED <<api_key, trace, result, call, key0>>

\* What get/post does with the classified response (lines 57-64 / 80-87):
\* return it, re-raise it, or enter _handle_expired_api_key.
AfterResponse(f, out, stk) ==
    IF out.kind = "PardotAPIError" /\ IsInvalidKey(out)
    THEN [stack |-> Append([stk EXCEPT ![Len(stk)].pc = "wait_handle"],
                           HandleFrame(out, f.retries, f.fn, f.object_name,
                                       f.path, f.params)),
          ret |-> NoOutcome]
    ELSE [stack |-> SubSeq(stk, 1, Len(stk) - 1), ret |-> out]

\* Lines 54-58 / 77-81: build the headers, send the request, classify the
\* response; then the except clause.
SendRequest ==
    /\ Running
    /\ Top.fn \in {"get", "post"} /\ Top.pc = "send"
    /\ \E resp \in Responses :
        LET next == AfterResponse(Top, CheckResponse(resp), stack)
        IN  /\ Len(next.stack) <= MaxDepth
            /\ trace' = Append(trace, Request(Top, api_key, Role(stack),
                                               Len(stack), resp))
            /\ stack' = next.stack
            /\ ret' = next.ret
    /\ UNCHANGED <<api_key, result, call, key0>>

\* _handle_expired_api_key, lines 94-97.
HandleExpired ==
    /\ Running
    /\ Top.fn = "handle" /\ Top.pc = "start"
    /\ IF RetryExhausted(Top.retries)
       THEN /\ stack' = Pop
            /\ ret' = Top.err
            /\ UNCHANGED api_key
       ELSE /\ Len(stack) < MaxDepth
            /\ api_key' = None
            /\ stack' = Append(SetTop([Top EXCEPT !.pc = "wait_auth"]),
                               AuthenticateFrame)
            /\ UNCHANGED ret
    /\ UNCHANGED <<trace, result, call, key0>>

\* Lines 97-101: authenticate() came back inside _handle_expired_api_key.
HandleAuthReturn ==
    /\ Returning
    /\ Top.fn = "handle" /\ Top.pc = "wait_auth"
    /\ IF IsRaise(ret)
       THEN stack' = Pop /\ ret' = ret
       ELSE IF ret.flag
            THEN /\ stack' = Append(SetTop([Top EXCEPT !.pc = "wait_replay"]),
                                    ReplayFrame(Top))
                 /\ ret' = NoOutcome
            ELSE stack' = Pop /\ ret' = Top.err
    /\ UNCHANGED <<api_key, trace, result, call, key0>>

\* Lines 98-99: the replay came back; its value or exception is passed on.
HandleReplayReturn ==
    /\ Returning
    /\ Top.fn = "handle" /\ Top.pc = "wait_replay"
    /\ stack' = Pop
    /\ UNCHANGED <<api_key, ret, trace, result, call, key0>>

\* Lines 61-62 / 84-85: _handle_expired_api_key came back inside the except
\* clause of get/post; nothing there catches what it raises.
RequestHandleReturn ==
    /\ Returning
    /\ Top.fn \in {"get", "post"} /\ Top.pc = "wait_handle"
    /\ stack' = Pop
    /\ UNCHANGED <<api_key, ret, trace, result, call, key0>>

\* authenticate, lines 138-140: the login request.
Authenticate ==
    /\ Running
    /\ Top.fn = "authenticate" /\ Top.pc = "start"
    /\ Len(stack) < MaxDepth
    /\ stack' = Append(SetTop([Top EXCEPT !.pc = "wait_post"]), LoginFrame)
    /\ UNCHANGED <<api_key, ret, trace, result, call, key0>>

\* Mutant of AuthenticateResult: line 141 assigns only when no key is held.
AuthenticateResultKeepsKey(out, key) ==
    IF out.kind = "PardotAPIError" THEN [key |-> key, ret |-> BoolValue(FALSE)]
    ELSE IF IsRaise(out) THEN [key |-> key, ret |-> out]
    ELSE IF out.kind = "status" THEN [key |-> key, ret |-> AttributeError]
    ELSE [key |-> IF key = None THEN out.json.api_key ELSE key,
          ret |-> BoolValue(out.json.api_key # None)]

\* Mutant of AuthenticateResult: the test of line 142 is inverted.
AuthenticateResultInverted(out, key) ==
    IF out.kind = "PardotAPIError" THEN [key |-> key, ret |-> BoolValue(FALSE)]
    ELSE IF IsRaise(out) THEN [key |-> key, ret |-> out]
    ELSE IF out.kind = "status" THEN [key |-> key, ret |-> AttributeError]
    ELSE [key |-> out.json.api_key,
          ret |-> BoolValue(out.json.api_key = None)]

\* authenticate, lines 141-146, given what self.post('login') gave:
\* the new value of self.api_key and what authenticate hands back.
AuthenticateResult(out, key) ==
    IF out.kind = "PardotAPIError" THEN [key |-> key, ret |-> BoolValue(FALSE)]
    ELSE IF IsRaise(out) THEN [key |-> key, ret |-> out]
    ELSE IF out.kind = "status" THEN [key |-> key, ret |-> AttributeError]
    ELSE [key |-> out.json.api_key,
          ret |-> BoolValue(out.json.api_key # None)]

AuthenticateReturn ==
    /\ Returning
    /\ Top.fn = "authenticate" /\ Top.pc = "wait_post"
    /\ LET r == AuthenticateResult(ret, api_key)
       IN  api_key' = r.key /\ ret' = r.ret
    /\ stack' = Pop
    /\ UNCHANGED <<trace, result, call, key0>>

----------------------------------------------------------------------------
(* The resource wrappers *)

\* The methods of class Visits (visits.py) and of class Accounts
\* (accounts.py) that callers use.
VisitsQueries ==
    {"Visits.query_by_ids", "Visits.query_by_visitor_ids",
     "Visits.query_by_prospect_ids"}
VisitsMethods == VisitsQueries \cup {"Visits.read"}
AccountsMethods ==
    {"Accounts.query", "Accounts.create", "Accounts.describe",
     "Accounts.read", "Accounts.update"}
WrapperMethods == VisitsMethods \cup AccountsMethods

\* Keyword arguments a caller may pass to a wrapper method, as their keys.
Kwargs == {{}, {"limit"}}

\* The object name the wrapper's _get and _post pass to the client.
WrapperObject(m) == IF m \in VisitsMethods THEN "visit" ELSE "prospectAccount"

\* The attribute of the client that the wrapper's _get or _post calls.
ClientAttribute(m) ==
    IF m \in VisitsQueries THEN "get"
    ELSE IF m = "Visits.read" THEN "post"
    ELSE IF m \in {"Accounts.query", "Accounts.create", "Accounts.describe"}
         THEN "_get"
    ELSE "_post"

\* The methods class PardotAPI defines.
ClientMethods ==
    {"post", "get", "_handle_expired_api_key", "_full_path",
     "_check_response", "_check_auth", "authenticate"}

\* The path the method builds (the id of read and update is 5).
WrapperPath(m) ==
    IF m \in VisitsQueries \cup {"Accounts.query"} THEN "/do/query"
    ELSE IF m = "Accounts.create" THEN "/do/create"
    ELSE IF m = "Accounts.describe" THEN "/do/describe"
    ELSE IF m = "Accounts.update" THEN "/do/update/id/5"
    ELSE "/do/read/id/5"

\* The keys of the parameter mapping the method builds from its arguments.
WrapperParams(m, kwargs) ==
    IF m = "Visits.query_by_ids" THEN kwargs \cup {"ids"}
    ELSE IF m = "Visits.query_by_visitor_ids" THEN kwargs \cup {"visitor_ids"}
    ELSE IF m = "Visits.query_by_prospect_ids" THEN kwargs \cup {"prospect_ids"}
    ELSE IF m \in {"Accounts.read", "Accounts.update"} THEN kwargs \cup {"id"}
    ELSE kwargs

\* A caller invokes wrapper method m: the method builds path and params
\* and its _get or _post calls the client's attribute; an attribute the
\* client does not have raises AttributeError before the client runs.
BeginWrapper(m, kwargs) ==
    /\ Idle
    /\ call' = [fn |-> m, object_name |-> WrapperObject(m),
                path |-> WrapperPath(m),
                params |-> WrapperParams(m, kwargs),
                retries |-> 0, data |-> None]
    /\ key0' = api_key
    /\ trace' = <<>>
    /\ result' = NoOutcome
    /\ IF ClientAttribute(m) \in ClientMethods
       THEN /\ stack' = <<RequestFrame(ClientAttribute(m), WrapperObject(m),
                                       WrapperPath(m),
                                       WrapperParams(m, kwargs), 0, None)>>
            /\ ret' = NoOutcome
       ELSE /\ stack' = <<>>
            /\ ret' = AttributeError
    /\ UNCHANGED api_key

\* A caller invokes one of client.visits' methods.
CallVisits == \E m \in VisitsMethods, kwargs \in Kwargs : BeginWrapper(m, kwargs)

\* A caller invokes one of the methods of an Accounts built on the client.
CallAccounts ==
    \E m \in AccountsMethods, kwargs \in Kwargs : BeginWrapper(m, kwargs)

\* What the top-level method hands to its caller, given what the client
\* gave it: Visits' queries return result.get('result'), which fails on a
\* status code; every other method returns the client's value as it is.
Returned(fn, out) ==
    IF fn \in VisitsQueries
    THEN IF out.kind = "json" THEN Outcome("result", out.json, 0, FALSE)
         ELSE IF out.kind = "status" THEN AttributeError
         ELSE out
    ELSE out

\* The top-level call is over: its caller has the value or the exception.
Finish ==
    /\ stack = <<>> /\ ret # NoOutcome
    /\ result' = Returned(call.fn, ret)
    /\ ret' = NoOutcome
    /\ UNCHANGED <<api_key, stack, trace, call, key0>>

Next ==
    \/ CallGet
    \/ CallPost
    \/ CallAuthenticate
    \/ CallVisits
    \/ CallAccounts
    \/ CheckAuth
    \/ CheckAuthReturn
    \/ SendRequest
    \/ HandleExpired
    \/ HandleAuthReturn
    \/ HandleReplayReturn
    \/ RequestHandleReturn
    \/ Authenticate
    \/ AuthenticateReturn
    \/ Finish

Spec == Init /\ [][Next]_vars

----------------------------------------------------------------------------
(* Vocabulary of the properties *)

\* The last top-level call is over and its caller has the outcome.
Done == Idle /\ call.fn # None

\* The top-level call is a get or post on a non-login object.
TopRequest == call.fn \in {"get", "post"} /\ call.object_name # "login"

\* The response is classified as the invalid-key API error.
InvalidKeyResponse(resp) ==
    /\ CheckResponse(resp).kind = "PardotAPIError"
    /\ Message(CheckResponse(resp)) = InvalidKeyMsg

\* The response is classified as an API error with another message.
OtherErrorResponse(resp) ==
    /\ CheckResponse(resp).kind = "PardotAPIError"
    /\ Message(CheckResponse(resp)) # InvalidKeyMsg

\* The response is classified as a success (a JSON body or a status code).
SuccessResponse(resp) == CheckResponse(resp).kind \in {"json", "status"}

\* A login response that issues a key.
KeyIssued(resp) ==
    CheckResponse(resp).kind = "json" /\ Json(resp).api_key # None

Sent == 1 .. Len(trace)
IsLogin(i) == trace[i].object_name = "login"

\* The request of the top-level get/post itself (its first attempt).
IsFirstAttempt(i) == trace[i].role = "request" /\ trace[i].depth = 1

\* The replay of the top-level get/post: get/post, handle, replay.
IsTopReplay(i) == trace[i].role = "replay" /\ trace[i].depth = 3

\* Number of activations of authenticate on the call stack.
AuthDepth == Cardinality({i \in 1 .. Len(stack) : stack[i].fn = "authenticate"})

\* The step sends a request.
Sends == Len(trace') = Len(trace) + 1
LastSent == trace'[Len(trace')]

----------------------------------------------------------------------------
(* Claims *)

\* C1 (as claimed): for a get or post on a non-login object whose first
\* attempt gets the invalid-key error, exactly one login request and at most
\* one replay follow it; a replay that gets the invalid-key error too is the
\* last request of the call and its error is what the caller receives.
C1_OneReauthOneReplay ==
    \A f \in Sent :
        (TopRequest /\ call.retries = 0 /\ IsFirstAttempt(f)
            /\ InvalidKeyResponse(trace[f].resp))
        => /\ Cardinality({i \in Sent : i > f /\ IsLogin(i)}) <= 1
           /\ Cardinality({i \in Sent : i > f /\ ~IsLogin(i)}) <= 1
           /\ Done => Cardinality({i \in Sent : i > f /\ IsLogin(i)}) = 1
           /\ \A r \in Sent :
                (IsTopReplay(r) /\ InvalidKeyResponse(trace[r].resp))
                => /\ r = Len(trace)
                   /\ Done => result = CheckResponse(trace[r].resp)

\* C2 (as claimed): the requests of one call are bounded by the protocol
\* (a login by _check_auth, the request, one re-login, one replay), and
\* authenticate is never entered while another authenticate is running.
C2_BoundedCall == Len(trace) <= 4 /\ AuthDepth <= 1

\* C3 (as claimed): a replay equals the request it replays (the latest
\* request sent two frames above it) in verb, object name, path, url,
\* params and body data, and has retries = 1.
C3_ReplayIdentical ==
    \A r \in Sent :
        trace[r].role = "replay"
        => \E o \in Sent :
            /\ o < r /\ trace[o].depth = trace[r].depth - 2
            /\ \A i \in Sent : (o < i /\ i < r) => trace[i].depth # trace[o].depth
            /\ trace[o].retries = 0 /\ trace[r].retries = 1
            /\ trace[r].verb = trace[o].verb
            /\ trace[r].object_name = trace[o].object_name
            /\ trace[r].path = trace[o].path
            /\ trace[r].url = trace[o].url
            /\ trace[r].params = trace[o].params
            /\ trace[r].data = trace[o].data

\* C4 (as claimed): whenever authenticate returns False, the key is absent
\* on return.
C4_FalseMeansAbsent ==
    [][(Returning /\ Top.fn = "authenticate" /\ ret' = BoolValue(FALSE))
        => api_key' = None]_vars

\* C5 (as claimed): authenticate always hands back a boolean; it never
\* raises.
C5_AuthenticateNeverRaises ==
    [][(Returning /\ Top.fn = "authenticate") => ret'.kind = "bool"]_vars

\* C6 (as claimed): the key never changes from one present value to another
\* present value; a new key is only assigned while the key is absent.
C6_NoPresentToPresent ==
    [][(api_key' # api_key /\ api_key' # None) => api_key = None]_vars

\* C7 (as claimed): when a get or post on a non-login object starts with the
\* key absent, exactly one login request, made by _check_auth, precedes the
\* request itself.
C7_OneLoginBeforeRequest ==
    \A f \in Sent :
        (TopRequest /\ key0 = None /\ IsFirstAttempt(f))
        => /\ f = 2
           /\ IsLogin(1) /\ trace[1].role = "ensure"

\* C8: a get or post whose response is a JSON body with a non-empty err
\* that is not the invalid-key message raises that error to its caller in
\* the same step: the activation is left with the PardotAPIError of that
\* body travelling to the caller, the key is untouched, nothing is pushed;
\* and when the activation is the top-level call or its replay, that request
\* is the last one of the call and the error is what the caller receives.
C8_OtherErrorRaisedAtOnce ==
    /\ [][(Sends /\ OtherErrorResponse(LastSent.resp))
            => /\ stack' = Pop
               /\ ret' = PardotAPIError(Json(LastSent.resp))
               /\ api_key' = api_key]_vars
    /\ [](\A i \in Sent :
            (/\ call.fn \in {"get", "post"}
             /\ IsFirstAttempt(i) \/ IsTopReplay(i)
             /\ OtherErrorResponse(trace[i].resp))
            => /\ i = Len(trace)
               /\ Done => result = PardotAPIError(Json(trace[i].resp)))

\* C8 witness: a top-level get/post on a non-login object has ended with the
\* other-message API error of its own request.
C8_Witness ==
    /\ Done /\ TopRequest
    /\ Len(trace) >= 1
    /\ IsFirstAttempt(Len(trace))
    /\ OtherErrorResponse(trace[Len(trace)].resp)
    /\ result.kind = "PardotAPIError"
    /\ Message(result) = OtherMsg

\* Every login request of the call was answered with a key.
LoginsSucceed == \A i \in Sent : IsLogin(i) => KeyIssued(trace[i].resp)

\* Every request of the call after request f that is not a login was
\* answered with a success.
RequestsSucceedAfter(f) ==
    \A i \in Sent : (i > f /\ ~IsLogin(i)) => SuccessResponse(trace[i].resp)

\* The entry is the request the top-level call describes.
IsCallRequest(i) ==
    /\ trace[i].verb = call.fn
    /\ trace[i].object_name = call.object_name
    /\ trace[i].path = call.path
    /\ trace[i].params = call.params \cup {"format"}

\* C9: a get on a non-login object that starts with a key present, gets the
\* invalid-key error on its first attempt, and whose login and replay
\* succeed, sends exactly three requests (the GET, the login POST, the GET
\* again) and returns what the replay's response decodes to.
C9_ThreeCalls ==
    (/\ Done /\ TopRequest /\ call.fn = "get" /\ call.retries = 0
     /\ key0 # None
     /\ Len(trace) >= 1
     /\ InvalidKeyResponse(trace[1].resp)
     /\ LoginsSucceed /\ RequestsSucceedAfter(1))
    => /\ Len(trace) = 3
       /\ IsCallRequest(1) /\ trace[1].retries = 0
       /\ IsLogin(2) /\ trace[2].verb = "post"
       /\ IsCallRequest(3) /\ trace[3].retries = 1
       /\ result = CheckResponse(trace[3].resp)
       /\ result.kind \in {"json", "status"}

\* C9 witness: such a call has ended with a decoded JSON payload.
C9_Witness ==
    /\ Done /\ TopRequest /\ call.fn = "get" /\ call.retries = 0
    /\ key0 # None
    /\ Len(trace) = 3
    /\ InvalidKeyResponse(trace[1].resp)
    /\ KeyIssued(trace[2].resp)
    /\ result.kind = "json"

\* C10: a get on a non-login object that starts with the key absent and
\* whose login and request succeed sends exactly two requests, the login
\* POST and then the GET, and returns what the GET's response decodes to.
C10_TwoCalls ==
    (/\ Done /\ TopRequest /\ call.fn = "get"
     /\ key0 = None
     /\ LoginsSucceed /\ RequestsSucceedAfter(0))
    => /\ Len(trace) = 2
       /\ IsLogin(1) /\ trace[1].verb = "post" /\ trace[1].data = LoginData
       /\ IsCallRequest(2)
       /\ result = CheckResponse(trace[2].resp)
       /\ result.kind \in {"json", "status"}

\* C10 witness: such a call has ended with a decoded JSON payload.
C10_Witness ==
    /\ Done /\ TopRequest /\ call.fn = "get"
    /\ key0 = None
    /\ Len(trace) = 2
    /\ KeyIssued(trace[1].resp)
    /\ result.kind = "json"

\* The login request that _handle_expired_api_key makes for the top-level
\* get/post: get/post, handle, authenticate, post('login').
IsTopReauth(i) == IsLogin(i) /\ trace[i].role = "reauth" /\ trace[i].depth = 4

\* C11 (as claimed): when the first attempt of a get or post with
\* retries = 0 gets the invalid-key error and the login request of the
\* re-authentication is not answered with a key, no replay is sent and the
\* caller receives the invalid-key error of the first attempt.
C11_OriginalErrorRaised ==
    \A f \in Sent : \A a \in Sent :
        (/\ TopRequest /\ call.retries = 0
         /\ IsFirstAttempt(f) /\ InvalidKeyResponse(trace[f].resp)
         /\ IsTopReauth(a) /\ ~KeyIssued(trace[a].resp))
        => /\ \A r \in Sent : ~IsTopReplay(r)
           /\ Done => result = CheckResponse(trace[f].resp)

\* The last request sent so far.
Last == trace[Len(trace)]

\* C12: when the login request whose response comes back to authenticate
\* is answered with a JSON body that carries an api_key and no err,
\* authenticate stores exactly that key and returns True; a top-level
\* authenticate() that ends after such a response has left that key in
\* self.api_key and given True to its caller.
C12_KeyStored ==
    /\ [][(/\ Returning /\ Top.fn = "authenticate"
           /\ Len(trace) >= 1 /\ IsLogin(Len(trace))
           /\ KeyIssued(Last.resp))
            => /\ api_key' = Last.resp.api_key
               /\ ret' = BoolValue(TRUE)]_vars
    /\ []((/\ Done /\ call.fn = "authenticate"
           /\ Len(trace) >= 1 /\ KeyIssued(Last.resp))
            => /\ api_key = Last.resp.api_key
               /\ result = BoolValue(TRUE))

\* C12 witness: authenticate(), called with key "k1" present, has ended
\* after one login answered with key "k2".
C12_Witness ==
    /\ Done /\ call.fn = "authenticate" /\ key0 = "k1"
    /\ Len(trace) = 1 /\ KeyIssued(Last.resp)
    /\ Last.resp.api_key = "k2" /\ api_key = "k2"
    /\ result = BoolValue(TRUE)

\* The login requests before request r that were answered with a key.
IssuedBefore(r) ==
    {j \in Sent : j < r /\ IsLogin(j) /\ KeyIssued(trace[j].resp)}

\* The greatest element of a non-empty set of numbers.
MaxOf(S) == CHOOSE x \in S : \A y \in S : y <= x

\* C13 (as claimed): a request carries the Authorization header exactly when
\* self.api_key is not None at the moment it is sent, and the header then
\* holds that key and the stored user key; the replay of the top-level
\* request carries the key issued by the latest login before it.
C13_HeaderIffKey ==
    /\ [][Sends
            => /\ LastSent.headers.present <=> api_key # None
               /\ LastSent.headers.present
                    => /\ LastSent.headers.api_key = api_key
                       /\ LastSent.headers.user_key = user_key]_vars
    /\ [](\A r \in Sent :
            IsTopReplay(r)
            => /\ IssuedBefore(r) # {}
               /\ trace[r].headers.present
               /\ trace[r].headers.api_key
                    = trace[MaxOf(IssuedBefore(r))].resp.api_key)

\* The response carries no JSON content-type.
NonJsonResponse(resp) == resp.ctype # "application/json"

\* C14: a response whose content-type is not JSON makes the get or post
\* that sent the request return the raw status code in the same step,
\* whatever the code is: nothing is raised, nothing is pushed (no retry, no
\* re-authentication) and the key is untouched; when the request is the
\* top-level call's own or its replay, it is the last request of the call
\* and the status code is what the caller receives.
C14_StatusCodeReturned ==
    /\ [][(Sends /\ NonJsonResponse(LastSent.resp))
            => /\ stack' = Pop
               /\ ret' = StatusValue(LastSent.resp.status)
               /\ api_key' = api_key]_vars
    /\ [](\A i \in Sent :
            (/\ call.fn \in {"get", "post"}
             /\ IsFirstAttempt(i) \/ IsTopReplay(i)
             /\ NonJsonResponse(trace[i].resp))
            => /\ i = Len(trace)
               /\ Done => result = StatusValue(trace[i].resp.status))

\* C14 witness: a get/post on a non-login object has ended returning the
\* status code 500 of a non-JSON response.
C14_Witness ==
    /\ Done /\ TopRequest
    /\ Len(trace) >= 1 /\ IsFirstAttempt(Len(trace))
    /\ NonJsonResponse(Last.resp) /\ Last.resp.status = 500
    /\ result = StatusValue(500)

----------------------------------------------------------------------------
(* The client against a well-behaved server *)

\* Request i presents a key that a login of this call issued before it.
PresentsIssuedKey(i) ==
    /\ trace[i].headers.present
    /\ \E j \in IssuedBefore(i) :
            trace[j].resp.api_key = trace[i].headers.api_key

\* The server of C15, as a condition on the responses of the current call:
\* every login is answered with a key; a non-login request is answered with
\* the invalid-key error when it presents no key, with a success when it
\* presents a key issued during this call (keys expire only between calls),
\* and with either of the two, the same each time, when it presents the key
\* the call started with (which may have expired since it was issued).
WellBehaved ==
    /\ \A i \in Sent : IsLogin(i) => KeyIssued(trace[i].resp)
    /\ \A i \in Sent :
        ~IsLogin(i)
        => /\ InvalidKeyResponse(trace[i].resp) \/ SuccessResponse(trace[i].resp)
           /\ ~trace[i].headers.present => InvalidKeyResponse(trace[i].resp)
           /\ PresentsIssuedKey(i) => SuccessResponse(trace[i].resp)
    /\ \A i, j \in Sent :
        (/\ ~IsLogin(i) /\ ~IsLogin(j)
         /\ trace[i].headers.present /\ ~PresentsIssuedKey(i)
         /\ trace[j].headers.present /\ ~PresentsIssuedKey(j))
        => (InvalidKeyResponse(trace[i].resp)
                <=> InvalidKeyResponse(trace[j].resp))

\* A step of the client whose response, if it sends a request, is one the
\* well-behaved server gives.
RecoveryNext ==
    \/ CallGet /\ WellBehaved'
    \/ CallPost /\ WellBehaved'
    \/ CallAuthenticate /\ WellBehaved'
    \/ CallVisits /\ WellBehaved'
    \/ CallAccounts /\ WellBehaved'
    \/ CheckAuth /\ WellBehaved'
    \/ CheckAuthReturn /\ WellBehaved'
    \/ SendRequest /\ WellBehaved'
    \/ HandleExpired /\ WellBehaved'
    \/ HandleAuthReturn /\ WellBehaved'
    \/ HandleReplayReturn /\ WellBehaved'
    \/ RequestHandleReturn /\ WellBehaved'
    \/ Authenticate /\ WellBehaved'
    \/ AuthenticateReturn /\ WellBehaved'
    \/ Finish /\ WellBehaved'

\* The steps inside a call: everything but the caller starting a new call.
Step ==
    \/ CheckAuth
    \/ CheckAuthReturn
    \/ SendRequest
    \/ HandleExpired
    \/ HandleAuthReturn
    \/ HandleReplayReturn
    \/ RequestHandleReturn
    \/ Authenticate
    \/ AuthenticateReturn
    \/ Finish

\* The client is synchronous and the server answers every request: a call
\* that can take a step takes it.
SpecRecovery ==
    Init /\ [][RecoveryNext]_vars /\ WF_vars(Step /\ WellBehaved')

\* A get or post on a non-login object, made the way callers make it
\* (retries = 0), is in progress.
RecoveryCallRunning == TopRequest /\ call.retries = 0 /\ ~Idle

\* C15 (as claimed): against the well-behaved server, every get or post on a non-login
\* object (retries = 0), from any key state (absent, valid, expired), ends,
\* and ends with a success value, never with the invalid-key error.
C15_TransparentRecovery ==
    /\ []((Done /\ TopRequest /\ call.retries = 0)
            => result.kind \in {"json", "status"})
    /\ (RecoveryCallRunning ~> Done)

----------------------------------------------------------------------------
(* Claims, continued *)

\* A get or post activation is about to run self._check_auth.
AtCheckAuth == Running /\ Top.fn \in {"get", "post"} /\ Top.pc = "check_auth"

\* C16: _check_auth does nothing when the object name is 'login' or a key
\* is held: the step sends nothing, leaves the key as it is and goes on to
\* the request; otherwise (non-login object, key absent) it enters
\* authenticate.  Seen from the caller: a get/post on 'login' or with a key
\* held sends its own request first, with the key it started with; a
\* get/post on another object with the key absent sends a login first.
C16_CheckAuthNoOp ==
    /\ [][AtCheckAuth
            => IF Top.object_name = "login" \/ api_key # None
               THEN /\ stack' = SetTop([Top EXCEPT !.pc = "send"])
                    /\ api_key' = api_key
                    /\ trace' = trace
               ELSE /\ stack' = Append(SetTop([Top EXCEPT !.pc = "wait_auth"]),
                                       AuthenticateFrame)
                    /\ api_key' = api_key
                    /\ trace' = trace]_vars
    /\ []((call.fn \in {"get", "post"} /\ Len(trace) >= 1)
            => IF call.object_name = "login" \/ key0 # None
               THEN IsFirstAttempt(1) /\ trace[1].headers = Headers(key0)
               ELSE IsLogin(1) /\ trace[1].role = "ensure")

\* C16 witness: a post on 'login' made while the key is absent has sent its
\* request first, without any login by _check_auth; and a get with a key
\* held has done the same.
C16_Witness ==
    /\ call.fn = "post" /\ call.object_name = "login" /\ key0 = None
    /\ Len(trace) = 1 /\ IsFirstAttempt(1)
    /\ api_key = None

\* C17 (as claimed): a call of authenticate() sends exactly one login
\* request, whatever the key is; and handling the same login response twice
\* leaves the key and the returned value that handling it once leaves.
C17_AuthenticateIdempotent ==
    /\ call.fn = "authenticate"
        => /\ Len(trace) <= 1
           /\ Done => Len(trace) = 1 /\ IsLogin(1)
    /\ \A resp \in Responses, key \in Keys \cup {None} :
        LET once == AuthenticateResult(CheckResponse(resp), key)
        IN  AuthenticateResult(CheckResponse(resp), once.key) = once

\* The authenticate() called by the _check_auth of the top-level get/post
\* has come back.
EnsureAuthReturns ==
    /\ Returning /\ Len(stack) = 1
    /\ Top.fn \in {"get", "post"} /\ Top.pc = "wait_auth"

\* C18 (as claimed): when the key is absent and the authentication made by
\* _check_auth fails, the get or post goes on: the request is sent, without
\* an Authorization header, and unless it gets the invalid-key error it is
\* the last request of the call and its classified response is what the
\* caller receives.
C18_DegradesGracefully ==
    /\ [][(EnsureAuthReturns /\ ret # BoolValue(TRUE))
            => /\ stack' = SetTop([Top EXCEPT !.pc = "send"])
               /\ ret' = NoOutcome
               /\ api_key' = api_key]_vars
    /\ []((Done /\ TopRequest /\ key0 = None)
            => \E f \in Sent : IsFirstAttempt(f))
    /\ [](\A f \in Sent :
            (/\ TopRequest /\ key0 = None
             /\ IsFirstAttempt(f) /\ IssuedBefore(f) = {})
            => /\ ~trace[f].headers.present
               /\ ~InvalidKeyResponse(trace[f].resp)
                    => /\ f = Len(trace)
                       /\ Done => result = CheckResponse(trace[f].resp))

\* The login requests of the current call that were answered with a key.
Issued == {j \in Sent : IsLogin(j) /\ KeyIssued(trace[j].resp)}

\* A login request the caller made itself through get or post (or its
\* replay): its response goes to the caller, not to authenticate.
DirectLogin(i) == IsLogin(i) /\ (IsFirstAttempt(i) \/ IsTopReplay(i))

\* The login requests answered with a key whose response authenticate got.
IssuedToAuthenticate == {j \in Issued : ~DirectLogin(j)}

\* The key of the latest login of S, or the key the call started with when
\* S is empty.
LatestKey(S) == IF S = {} THEN key0 ELSE trace[MaxOf(S)].resp.api_key

\* The step assigns the decoded login response's api_key in authenticate
\* (line 141).
StoredByAuthenticate ==
    /\ Returning /\ Top.fn = "authenticate" /\ Top.pc = "wait_post"
    /\ ret.kind = "json"
    /\ api_key' = ret.json.api_key

\* The step clears the key in _handle_expired_api_key with retries = 0
\* (line 96).
ClearedOnInvalidKey ==
    /\ Running /\ Top.fn = "handle" /\ Top.retries = 0
    /\ IsInvalidKey(Top.err)
    /\ api_key' = None

\* C19 (as claimed): between calls the key is absent or is the api_key of
\* the most recent login response that carried one; the key is written only
\* by authenticate and by the clearing on an invalid-key error with
\* retries = 0.
C19_KeyIsLatestIssued ==
    /\ [][api_key' # api_key
            => StoredByAuthenticate \/ ClearedOnInvalidKey]_vars
    /\ [](Done => api_key = None \/ api_key = LatestKey(Issued))

\* C19 (amended): as claimed, for the login responses that authenticate
\* received; a login the caller makes itself through get or post hands its
\* response to the caller and leaves the key alone.  During a call the key
\* is absent, the key the call started with, or one of those issued to
\* authenticate.
C19_KeyIsLatestStored ==
    /\ [][api_key' # api_key
            => StoredByAuthenticate \/ ClearedOnInvalidKey]_vars
    /\ [](Done => api_key = None \/ api_key = LatestKey(IssuedToAuthenticate))
    /\ [](api_key \in {None, key0}
                \cup {trace[j].resp.api_key : j \in IssuedToAuthenticate})

\* C19 witness: a get/post on a non-login object that started with key "k1"
\* has ended after the key was cleared and "k2" was stored by authenticate.
C19_Witness ==
    /\ Done /\ TopRequest /\ key0 = "k1"
    /\ IssuedToAuthenticate # {}
    /\ LatestKey(IssuedToAuthenticate) = "k2"
    /\ api_key = "k2"

\* The step is a caller invoking a wrapper method.
WrapperBegins ==
    /\ Idle /\ call'.fn \in WrapperMethods
    /\ stack' # <<>> \/ ret' # NoOutcome

\* C20 (as claimed): a wrapper method enters the client through get or post
\* with the wrapper's object name and the path and parameters it built; its
\* request is preceded by the login of _check_auth when the key is absent,
\* and an invalid-key answer to it is followed by the re-authentication.
C20_WrappersUseGetPost ==
    /\ [][WrapperBegins
            => /\ ret' = NoOutcome
               /\ \E verb \in {"get", "post"} :
                    stack' = <<RequestFrame(verb, WrapperObject(call'.fn),
                                            call'.path, call'.params,
                                            0, None)>>]_vars
    /\ [](call.fn \in WrapperMethods
            => /\ \A i \in Sent :
                    (IsFirstAttempt(i) \/ IsTopReplay(i))
                    => /\ trace[i].verb \in {"get", "post"}
                       /\ trace[i].object_name = WrapperObject(call.fn)
                       /\ trace[i].path = call.path
               /\ Len(trace) >= 1
                    => IF key0 = None
                       THEN IsLogin(1) /\ trace[1].role = "ensure"
                       ELSE IsFirstAttempt(1)
               /\ \A f \in Sent :
                    (/\ IsFirstAttempt(f)
                     /\ InvalidKeyResponse(trace[f].resp)
                     /\ Len(trace) > f)
                    => IsLogin(f + 1) /\ trace[f + 1].role = "reauth")

====
